---- MODULE Spec2Model ----
(***************************************************************************)
(* Conversation memory of the Telegram bot in src/bot.py: the per-user     *)
(* record files data/<user_id>.json, the bounded message history, the      *)
(* on_message and clear_data handlers and the authorization gate.          *)
(*                                                                         *)
(* Handlers are coroutines.  A handler runs atomically between its awaits; *)
(* the only await of on_message is the outbound send (line 95), the only   *)
(* await of clear_data is its final reply.  The handlers take no lock, so  *)
(* while one unit of work is suspended at its send the event loop may run  *)
(* any other handler, for the same identity too.                           *)
(*                                                                         *)
(* Message texts are modelled as distinct numbers (every inbound message   *)
(* carries a fresh text); the code never compares texts, so distinct texts *)
(* only make entries distinguishable.                                      *)
(***************************************************************************)
EXTENDS Integers, Sequences, FiniteSets, TLC

VARIABLES
    proc,           \* the process: importing the module, polling, or exited
    configFiles,    \* which of the configuration files exist
    ALLOWED_USERS,  \* the allow-list read from allowed_users.json at start
    store,      \* data/<user_id>.json for every identity: NoFile or a record
    units,      \* on_message units of work suspended at / resumed from the send
    nextText,   \* text of the next inbound message
    last,       \* the last handler step taken (observation of the run)
    base,       \* per identity: persisted history when its current epoch began
    done,       \* per identity: texts of the units saved in the current epoch
    gone,       \* per identity: texts deleted by a successful clear
    messages,   \* history list threaded through update_message_history
    appended    \* every entry handed to update_message_history so far

vars == <<proc, configFiles, ALLOWED_USERS, store, units, nextText, last, base, done, gone, messages, appended>>

storeVars == <<proc, configFiles, ALLOWED_USERS, store, units, nextText, last, base, done, gone>>
histVars == <<messages, appended>>

----------------------------------------------------------------------------
(* Bounds of the model *)

MaxMsgs == 3          \* inbound text messages delivered in one run
MaxInFlight == 2      \* on_message units suspended at the same time
MaxAppends == 22      \* appends in a run of update_message_history
FreeAppends == 3      \* leading appends whose entry is drawn freely

(* Program constants *)

HistoryLimit == 20    \* messages[-20:] if len(messages) > 20

Users == {1, 2, 3}

Roles == {"user", "bot"}
NoFile == [file |-> "absent"]

\* a file that json.load cannot decode (json.JSONDecodeError)
Corrupt == [file |-> "corrupt"]

IsRecord(f) == f # NoFile /\ f # Corrupt

\* update.effective_user.username: a name, or "" when the account has none
Usernames == {"alice", ""}

Str(user_id) == CASE user_id = 1 -> "1" [] user_id = 2 -> "2" [] OTHER -> "3"

Entry(role, text) == [from |-> role, text |-> text]

----------------------------------------------------------------------------
(* Python list operations used by the code *)

\* s[-k:] for k > 0
SliceLast(s, k) ==
    LET n == Len(s)
        start == IF n - k < 0 THEN 0 ELSE n - k
    IN SubSeq(s, start + 1, n)

\* s[:k] for k >= 0
SliceFirst(s, k) == SubSeq(s, 1, IF k < Len(s) THEN k ELSE Len(s))

----------------------------------------------------------------------------
(* update_message_history, lines 66-69 *)

update_message_history_keep_first(msgs, new_message) ==
    LET appendedList == Append(msgs, new_message)
    IN IF Len(appendedList) > HistoryLimit
       THEN SliceFirst(appendedList, HistoryLimit)
       ELSE appendedList

update_message_history_off_by_one(msgs, new_message) ==
    LET appendedList == Append(msgs, new_message)
    IN IF Len(appendedList) > HistoryLimit + 1
       THEN SliceLast(appendedList, HistoryLimit + 1)
       ELSE appendedList

update_message_history(msgs, new_message) ==
    LET appendedList == Append(msgs, new_message)
    IN IF Len(appendedList) > HistoryLimit
       THEN SliceLast(appendedList, HistoryLimit)
       ELSE appendedList

----------------------------------------------------------------------------
(* The record files.  json.dump / json.load of a dict of strings and lists  *)
(* of such dicts gives back an equal dict, so a file holds the record.     *)

\* save_chat_memory, lines 61-64: the file is overwritten with the record
save_chat_memory_keep_existing(st, user_id, memory) ==
    IF st[user_id] = NoFile THEN [st EXCEPT ![user_id] = memory] ELSE st

save_chat_memory_first_file(st, user_id, memory) == [st EXCEPT ![1] = memory]

save_chat_memory(st, user_id, memory) == [st EXCEPT ![user_id] = memory]

\* load_chat_memory, lines 43-59: the record read and the files afterwards.
\* Only FileNotFoundError is caught (line 52): the decode error of a corrupt
\* file leaves the function as an exception.
load_chat_memory_unsaved(st, user_id, username) ==
    IF st[user_id] = NoFile
    THEN [raised |-> FALSE, memory |-> [username |-> username, messages |-> <<>>],
          files |-> st]
    ELSE IF st[user_id] = Corrupt
    THEN [raised |-> TRUE, memory |-> NoFile, files |-> st]
    ELSE [raised |-> FALSE, memory |-> st[user_id], files |-> st]

load_chat_memory(st, user_id, username) ==
    IF st[user_id] = NoFile
    THEN LET memory == [username |-> username, messages |-> <<>>]
         IN [raised |-> FALSE, memory |-> memory,
             files |-> save_chat_memory(st, user_id, memory)]
    ELSE IF st[user_id] = Corrupt
    THEN [raised |-> TRUE, memory |-> NoFile, files |-> st]
    ELSE [raised |-> FALSE, memory |-> st[user_id], files |-> st]

\* update.effective_user.username or str(user_id), line 83
DisplayName(username, user_id) == IF username # "" THEN username ELSE Str(user_id)

\* user_id not in ALLOWED_USERS, lines 76 and 108
IsAllowed_everyone(user_id) == TRUE

IsAllowed(user_id) == user_id \in ALLOWED_USERS

----------------------------------------------------------------------------
(* Start of the process, lines 30-41 and 120-136 *)

ConfigNames == {"allowed_users.json", "private.json"}

\* the identities listed in allowed_users.json
AllowListFile == {1}

Importing == [state |-> "import", exit_code |-> -1, error |-> "none"]
Polling == [state |-> "polling", exit_code |-> -1, error |-> "none"]
Exited(code, filename) == [state |-> "exited", exit_code |-> code, error |-> filename]

Registered == proc.state = "polling"

\* load_json_file, lines 30-37: whether the file was read; when it is not
\* found the error is logged and sys.exit(1) ends the process
load_json_file_default(files, filename) == [found |-> TRUE, exit_code |-> -1]

load_json_file(files, filename) ==
    IF filename \in files
    THEN [found |-> TRUE, exit_code |-> -1]
    ELSE [found |-> FALSE, exit_code |-> 1]

\* lines 39-41, then main: both files are loaded, the handlers registered
module_start ==
    /\ proc.state = "import"
    /\ LET allowed == load_json_file(configFiles, "allowed_users.json")
           config == load_json_file(configFiles, "private.json")
       IN IF ~allowed.found
          THEN /\ proc' = Exited(allowed.exit_code, "allowed_users.json")
               /\ UNCHANGED ALLOWED_USERS
          ELSE /\ ALLOWED_USERS' = AllowListFile
               /\ proc' = IF ~config.found
                          THEN Exited(config.exit_code, "private.json")
                          ELSE Polling
    /\ UNCHANGED <<configFiles, store, units, nextText, last, base, done, gone,
                   messages, appended>>

----------------------------------------------------------------------------
(* Observation of the run *)

NoUnit == [id |-> 0]
NoPrior == [op |-> "none", reply |-> "none", loaded |-> NoFile]

\* the event before this one, when it was an event of the same identity
Prior(user_id) ==
    IF last.op # "init" /\ last.user = user_id
    THEN [op |-> last.op, reply |-> last.reply, loaded |-> last.loaded]
    ELSE NoPrior

Event(op, user_id, text, reply, calls, loaded, unit) ==
    [op |-> op, user |-> user_id, text |-> text, reply |-> reply,
     calls |-> calls, loaded |-> loaded, unit |-> unit,
     prior |-> Prior(user_id)]

\* another event of the identity happened while these units were in flight
Disturb(us, user_id) ==
    {IF w.user_id = user_id THEN [w EXCEPT !.clean = FALSE] ELSE w : w \in us}

TextsOf(msgs) == {msgs[i].text : i \in 1..Len(msgs)}

FileTexts(f) == IF IsRecord(f) THEN TextsOf(f.messages) ELSE {}

----------------------------------------------------------------------------
(* on_message, lines 71-102 *)

\* on_message with the bot entry appended and saved before the send
on_message_save_first(user_id, username) ==
    /\ nextText <= MaxMsgs
    /\ UNCHANGED <<proc, configFiles, ALLOWED_USERS, gone, base, done, histVars>>
    /\ IF ~IsAllowed(user_id)
       THEN /\ last' = Event("msg_rejected", user_id, 0, "none", {},
                             NoFile, NoUnit)
            /\ UNCHANGED <<store, units, nextText>>
       ELSE /\ Cardinality(units) < MaxInFlight
            /\ nextText' = nextText + 1
            /\ LET ld == load_chat_memory(store, user_id,
                                          DisplayName(username, user_id))
                   memory == [ld.memory EXCEPT !.messages =
                                 update_message_history(@, Entry("user", nextText))]
                   reply == nextText
                   unit == [id |-> nextText, user_id |-> user_id, text |-> nextText,
                            memory |-> memory, reply |-> reply, pc |-> "sending",
                            pre |-> store[user_id],
                            clean |-> \A w \in units : w.user_id # user_id]
               IN /\ store' = IF ld.raised THEN ld.files
                             ELSE save_chat_memory(ld.files, user_id,
                                     [memory EXCEPT !.messages =
                                         update_message_history(@, Entry("bot", reply))])
                  /\ IF ld.raised
                     THEN \* line 83 raises: the handler ends with the exception
                          /\ units' = Disturb(units, user_id)
                          /\ last' = Event("msg_crashed", user_id, nextText, "none",
                                           {"load_chat_memory"}, NoFile, NoUnit)
                     ELSE /\ units' = Disturb(units, user_id) \cup {unit}
                          /\ last' = Event("msg_start", user_id, nextText, "none",
                                           {"load_chat_memory",
                                            "update_message_history", "reply_text"}
                                             \cup (IF store[user_id] = NoFile
                                                   THEN {"save_chat_memory"} ELSE {}),
                                           ld.memory, NoUnit)

\* lines 74-95: from the event to the await of the outbound send
on_message(user_id, username) ==
    /\ nextText <= MaxMsgs
    /\ UNCHANGED <<proc, configFiles, ALLOWED_USERS, gone, base, done, histVars>>
    /\ IF ~IsAllowed(user_id)
       THEN /\ last' = Event("msg_rejected", user_id, 0, "none", {},
                             NoFile, NoUnit)
            /\ UNCHANGED <<store, units, nextText>>
       ELSE /\ Cardinality(units) < MaxInFlight
            /\ nextText' = nextText + 1
            /\ LET ld == load_chat_memory(store, user_id,
                                          DisplayName(username, user_id))
                   memory == [ld.memory EXCEPT !.messages =
                                 update_message_history(@, Entry("user", nextText))]
                   reply == nextText
                   unit == [id |-> nextText, user_id |-> user_id, text |-> nextText,
                            memory |-> memory, reply |-> reply, pc |-> "sending",
                            pre |-> store[user_id],
                            clean |-> \A w \in units : w.user_id # user_id]
               IN /\ store' = ld.files
                  /\ IF ld.raised
                     THEN \* line 83 raises: the handler ends with the exception
                          /\ units' = Disturb(units, user_id)
                          /\ last' = Event("msg_crashed", user_id, nextText, "none",
                                           {"load_chat_memory"}, NoFile, NoUnit)
                     ELSE /\ units' = Disturb(units, user_id) \cup {unit}
                          /\ last' = Event("msg_start", user_id, nextText, "none",
                                           {"load_chat_memory",
                                            "update_message_history", "reply_text"}
                                             \cup (IF store[user_id] = NoFile
                                                   THEN {"save_chat_memory"} ELSE {}),
                                           ld.memory, NoUnit)

\* line 95: the transport delivered the reply, reply_text returns
reply_text_ok_then_return(unit) ==
    /\ unit.pc = "sending"
    /\ units' = Disturb(units \ {unit}, unit.user_id)
    /\ last' = Event("msg_sent", unit.user_id, unit.text, "echo", {}, NoFile, unit)
    /\ UNCHANGED <<proc, configFiles, ALLOWED_USERS, store, nextText, gone, base,
                   done, histVars>>

reply_text_ok(unit) ==
    /\ unit.pc = "sending"
    /\ units' = Disturb(units \ {unit}, unit.user_id) \cup {[unit EXCEPT !.pc = "sent"]}
    /\ last' = Event("msg_sent", unit.user_id, unit.text, "echo", {}, NoFile, unit)
    /\ UNCHANGED <<proc, configFiles, ALLOWED_USERS, store, nextText, gone, base, done, histVars>>

\* line 95: reply_text raises, the handler ends with the exception
reply_text_raises_saves(unit) ==
    /\ unit.pc = "sending"
    /\ store' = save_chat_memory(store, unit.user_id, unit.memory)
    /\ units' = Disturb(units \ {unit}, unit.user_id)
    /\ last' = Event("msg_failed", unit.user_id, unit.text, "none",
                     {"save_chat_memory"}, NoFile, unit)
    /\ UNCHANGED <<proc, configFiles, ALLOWED_USERS, nextText, gone, base, done,
                   histVars>>

reply_text_raises(unit) ==
    /\ unit.pc = "sending"
    /\ units' = Disturb(units \ {unit}, unit.user_id)
    /\ last' = Event("msg_failed", unit.user_id, unit.text, "none", {}, NoFile, unit)
    /\ UNCHANGED <<proc, configFiles, ALLOWED_USERS, store, nextText, gone, base, done, histVars>>

\* lines 97-102: the handler resumes after the send
on_message_resume(unit) ==
    /\ unit.pc = "sent"
    /\ LET memory == [unit.memory EXCEPT !.messages =
                         update_message_history(@, Entry("bot", unit.reply))]
       IN store' = save_chat_memory(store, unit.user_id, memory)
    /\ units' = Disturb(units \ {unit}, unit.user_id)
    /\ done' = [done EXCEPT ![unit.user_id] = Append(@, unit.text)]
    /\ last' = Event("msg_done", unit.user_id, unit.text, "none",
                     {"update_message_history", "save_chat_memory"}, NoFile, unit)
    /\ UNCHANGED <<proc, configFiles, ALLOWED_USERS, nextText, gone, base, histVars>>

----------------------------------------------------------------------------
(* clear_data, lines 104-118; last.reply is the text handed to reply_text *)

\* data_file.exists(), line 113
data_file_exists(st, user_id) == st[user_id] # NoFile

\* data_file.unlink(), line 114
data_file_unlink_kept(st, user_id) == st

data_file_unlink(st, user_id) == [st EXCEPT ![user_id] = NoFile]

clear_data(user_id) ==
    /\ UNCHANGED <<proc, configFiles, ALLOWED_USERS, nextText, histVars>>
    /\ IF ~IsAllowed(user_id)
       THEN /\ last' = Event("clear_rejected", user_id, 0, "none", {}, NoFile, NoUnit)
            /\ UNCHANGED <<store, units, gone, base, done>>
       ELSE /\ units' = Disturb(units, user_id)
            /\ IF data_file_exists(store, user_id)
               THEN /\ store' = data_file_unlink(store, user_id)
                    /\ gone' = [gone EXCEPT ![user_id] =
                                   @ \cup FileTexts(store[user_id])]
                    /\ base' = [base EXCEPT ![user_id] = <<>>]
                    /\ done' = [done EXCEPT ![user_id] = <<>>]
                    /\ last' = Event("clear", user_id, 0, "cleared",
                                     {"unlink", "reply_text"}, NoFile, NoUnit)
               ELSE /\ last' = Event("clear", user_id, 0, "notfound",
                                     {"reply_text"}, NoFile, NoUnit)
                    /\ UNCHANGED <<store, gone, base, done>>

----------------------------------------------------------------------------
(* Start of the process, lines 39-41: the allow-list is read once; the     *)
(* files found in data/ are records written by earlier runs.               *)

\* k messages and their echoes, texts -k .. -1
PriorHistory(k) ==
    [i \in 1..(2 * k) |->
        Entry(IF i % 2 = 1 THEN "user" ELSE "bot", ((i + 1) \div 2) - k - 1)]

PriorRecord(user_id, k) == [username |-> Str(user_id), messages |-> PriorHistory(k)]

\* identity 1 is allowed and new or two messages short of a full history;
\* identities 2 and 3 are not allowed, 2 without a file and 3 with one
InitFiles(user_id) ==
    CASE user_id = 1 -> {NoFile, PriorRecord(1, (HistoryLimit \div 2) - 2)}
      [] user_id = 2 -> {NoFile}
      [] OTHER -> {PriorRecord(user_id, 1)}

Init ==
    /\ proc = Polling
    /\ configFiles = ConfigNames
    /\ ALLOWED_USERS = AllowListFile
    /\ store \in {st \in [Users -> UNION {InitFiles(u) : u \in Users}] :
                     \A u \in Users : st[u] \in InitFiles(u)}
    /\ units = {}
    /\ nextText = 1
    /\ last = [op |-> "init"]
    /\ base = [u \in Users |-> IF store[u] = NoFile THEN <<>> ELSE store[u].messages]
    /\ done = [u \in Users |-> <<>>]
    /\ gone = [u \in Users |-> {}]
    /\ messages = <<>>
    /\ appended = <<>>

\* the handlers run once main has registered them, lines 126-132
Next ==
    \/ Registered /\ \E user_id \in Users, username \in Usernames :
                         on_message(user_id, username)
    \/ Registered /\ \E unit \in units : reply_text_ok(unit)
    \/ Registered /\ \E unit \in units : reply_text_raises(unit)
    \/ Registered /\ \E unit \in units : on_message_resume(unit)
    \/ Registered /\ \E user_id \in Users : clear_data(user_id)

Spec == Init /\ [][Next]_vars

\* Scheduling: the transport ends every send (reply_text returns or raises),
\* and the event loop resumes a coroutine whose await has completed.
Fairness ==
    \A id \in 1..MaxMsgs :
        /\ WF_vars(\E unit \in units :
                      /\ unit.id = id
                      /\ reply_text_ok(unit) \/ reply_text_raises(unit))
        /\ WF_vars(\E unit \in units : unit.id = id /\ on_message_resume(unit))

\* identity 1 is new; the run takes one message fewer than MaxMsgs
InitFair ==
    /\ proc = Polling
    /\ configFiles = ConfigNames
    /\ ALLOWED_USERS = AllowListFile
    /\ store = [u \in Users |-> IF u = 3 THEN PriorRecord(u, 1) ELSE NoFile]
    /\ units = {}
    /\ nextText = 2
    /\ last = [op |-> "init"]
    /\ base = [u \in Users |-> IF IsRecord(store[u]) THEN store[u].messages ELSE <<>>]
    /\ done = [u \in Users |-> <<>>]
    /\ gone = [u \in Users |-> {}]
    /\ messages = <<>>
    /\ appended = <<>>

SpecFair == InitFair /\ [][Next]_vars /\ Fairness

\* the process from its start, with any of the configuration files missing
InitStart ==
    /\ proc = Importing
    /\ configFiles \in SUBSET ConfigNames
    /\ ALLOWED_USERS = {}
    /\ store \in {st \in [Users -> UNION {InitFiles(u) : u \in Users}] :
                     \A u \in Users : st[u] \in InitFiles(u)}
    /\ units = {}
    /\ nextText = 1
    /\ last = [op |-> "init"]
    /\ base = [u \in Users |-> IF store[u] = NoFile THEN <<>> ELSE store[u].messages]
    /\ done = [u \in Users |-> <<>>]
    /\ gone = [u \in Users |-> {}]
    /\ messages = <<>>
    /\ appended = <<>>

NextStart == module_start \/ Next

SpecStart == InitStart /\ [][NextStart]_vars

\* two allowed identities; the file of identity 1 is missing or was left
\* undecodable by an earlier run that died while writing it; the run takes
\* one message fewer than MaxMsgs (its texts start at 2)
InitPair ==
    /\ proc = Polling
    /\ configFiles = ConfigNames
    /\ ALLOWED_USERS = {1, 2}
    /\ store \in {[u \in Users |-> IF u = 1 THEN f
                                   ELSE IF u = 2 THEN NoFile
                                   ELSE PriorRecord(u, 1)] : f \in {NoFile, Corrupt}}
    /\ units = {}
    /\ nextText = 2
    /\ last = [op |-> "init"]
    /\ base = [u \in Users |-> IF IsRecord(store[u]) THEN store[u].messages ELSE <<>>]
    /\ done = [u \in Users |-> <<>>]
    /\ gone = [u \in Users |-> {}]
    /\ messages = <<>>
    /\ appended = <<>>

SpecPair == InitPair /\ [][Next]_vars

----------------------------------------------------------------------------
(* A run of appends from the empty history: each result is the next input *)

InitHist ==
    /\ messages = <<>>
    /\ appended = <<>>
    /\ proc = Polling
    /\ configFiles = ConfigNames
    /\ ALLOWED_USERS = {}
    /\ store = [u \in Users |-> NoFile]
    /\ units = {}
    /\ nextText = 1
    /\ last = [op |-> "init"]
    /\ base = [u \in Users |-> <<>>]
    /\ done = [u \in Users |-> <<>>]
    /\ gone = [u \in Users |-> {}]

\* the first FreeAppends entries are arbitrary, the later ones distinct
AppendInputs ==
    IF Len(appended) < FreeAppends
    THEN {Entry(r, t) : r \in Roles, t \in 1..2}
    ELSE {Entry(IF Len(appended) % 2 = 0 THEN "user" ELSE "bot", 100 + Len(appended))}

AppendStep ==
    /\ Len(appended) < MaxAppends
    /\ \E new_message \in AppendInputs :
          /\ messages' = update_message_history(messages, new_message)
          /\ appended' = Append(appended, new_message)
    /\ UNCHANGED storeVars

SpecHist == InitHist /\ [][AppendStep]_vars

Min(a, b) == IF a < b THEN a ELSE b

\* the last k elements of s, by index
LastOf(s, k) == [i \in 1..k |-> s[Len(s) - k + i]]

\* C1: after every append the history has at most 20 entries and is exactly
\* the last min(N, 20) of the N entries appended, in their original order.
C1_BoundedHistory ==
    /\ Len(messages) <= 20
    /\ messages = LastOf(appended, Min(Len(appended), 20))

\* C1 witness: more than 20 entries were appended, so the front was evicted
C1_Witness ==
    /\ Len(appended) > 20
    /\ Len(messages) = 20
    /\ messages[1] = appended[Len(appended) - 19]

----------------------------------------------------------------------------
(* Properties of the handlers, checked under Spec *)

Range(s) == {s[i] : i \in 1..Len(s)}

InFlight(user_id) == {w \in units : w.user_id = user_id}

\* the entries of the messages with these texts, each followed by its echo
PairsOf(texts) ==
    [i \in 1..(2 * Len(texts)) |->
        Entry(IF i % 2 = 1 THEN "user" ELSE "bot", texts[(i + 1) \div 2])]

\* the most recent 20 entries of a history
Recent(s) == LastOf(s, Min(Len(s), 20))

\* messages completed by the identity since its record was last created anew
Completed(user_id) == (Len(base[user_id]) \div 2) + Len(done[user_id])

\* C2: every persisted history has at most 20 entries, and once an identity
\* has completed more than 10 messages without a clear its persisted history
\* has exactly 20 entries, the most recent ones (the oldest were evicted).
C2_BoundAndEviction ==
    \A u \in ALLOWED_USERS :
        store[u] # NoFile =>
            /\ Len(store[u].messages) <= 20
            /\ Completed(u) > 10 =>
                  /\ Len(store[u].messages) = 20
                  /\ store[u].messages = Recent(base[u] \o PairsOf(done[u]))

\* C3: an event of an identity outside ALLOWED_USERS calls none of
\* load_chat_memory, update_message_history, save_chat_memory, unlink or
\* reply_text, and leaves the files and the units of work as they were.
C3_Gate ==
    [][\A u \in Users \ ALLOWED_USERS :
          last'.user = u =>
              /\ last'.op \in {"msg_rejected", "clear_rejected"}
              /\ last'.calls = {}
              /\ last'.reply = "none"
              /\ store' = store
              /\ units' = units]_vars

\* C3 witness: a rejected clear right after a rejected message of an identity
\* that owns a record file, which is still there
C3_Witness ==
    /\ last.op = "clear_rejected"
    /\ last.prior.op = "msg_rejected"
    /\ last.user \notin ALLOWED_USERS
    /\ store[last.user] # NoFile

Orders(texts) ==
    {p \in [1..Len(texts) -> Range(texts)] : \A t \in Range(texts) : \E i \in 1..Len(texts) : p[i] = t}

\* C4: when two on_message units of an identity have both saved and none is
\* in flight (and nothing was cleared), the persisted history is the one some
\* serial order of the two units gives: both user and both bot entries.
C4_Serializable ==
    \A u \in ALLOWED_USERS :
        (gone[u] = {} /\ InFlight(u) = {} /\ Len(done[u]) = 2) =>
            /\ store[u] # NoFile
            /\ \E p \in Orders(done[u]) :
                  store[u].messages = Recent(base[u] \o PairsOf(p))

\* C5: while a unit is at or past its outbound send, and after its send has
\* failed, the persisted record of its identity holds the message's user entry.
C5_UserEntryBeforeSend ==
    /\ \A w \in units :
          /\ store[w.user_id] # NoFile
          /\ Entry("user", w.text) \in Range(store[w.user_id].messages)
    /\ last.op = "msg_failed" =>
          /\ store[last.user] # NoFile
          /\ Entry("user", last.text) \in Range(store[last.user].messages)

\* C6: a clear of an allowed identity replies "cleared" and removes the record
\* exactly when a record exists, else replies "not found" and changes no file;
\* a clear right after a clear of the same identity replies "not found".
C6_Clear ==
    [][\A u \in ALLOWED_USERS :
          (last'.op = "clear" /\ last'.user = u) =>
              /\ IF store[u] # NoFile
                 THEN /\ last'.reply = "cleared"
                      /\ store' = [store EXCEPT ![u] = NoFile]
                 ELSE /\ last'.reply = "notfound"
                      /\ store' = store
              /\ last'.prior.op = "clear" => last'.reply = "notfound"]_vars

\* C6 witness: two clears in a row, the first "cleared", the second "not found"
C6_Witness ==
    /\ last.op = "clear"
    /\ last.reply = "notfound"
    /\ last.prior.op = "clear"
    /\ last.prior.reply = "cleared"
    /\ store[last.user] = NoFile

\* C7: when a unit on_message(t) of an allowed identity completes and no other
\* event of the identity happened since it started, the reply is t and the
\* persisted history is the most recent 20 of the history persisted before the
\* unit followed by {user,t},{bot,t}.
C7_Echo ==
    (last.op = "msg_done" /\ last.unit.clean) =>
        LET t == last.text
            before == IF last.unit.pre = NoFile THEN <<>> ELSE last.unit.pre.messages
        IN /\ last.unit.reply = t
           /\ store[last.user] # NoFile
           /\ store[last.user].messages =
                 Recent(before \o <<Entry("user", t), Entry("bot", t)>>)

\* C7 witness: an undisturbed unit of an identity without a record completed
C7_Witness ==
    /\ last.op = "msg_done"
    /\ last.unit.clean
    /\ last.unit.pre = NoFile
    /\ store[last.user].messages =
          <<Entry("user", last.text), Entry("bot", last.text)>>

\* C8: no entry deleted by a successful clear of an identity is ever in the
\* identity's persisted record again.
C8_ClearedStaysCleared ==
    \A u \in Users :
        store[u] # NoFile => TextsOf(store[u].messages) \cap gone[u] = {}

\* C9: load_chat_memory returns the persisted record; when there was none it
\* returns a record with empty history that it has persisted; and a load right
\* after a load of the same identity returns the same content.
C9_LoadTwice ==
    last.op = "msg_start" =>
        /\ \A w \in units :
              w.id = last.text =>
                  IF w.pre = NoFile
                  THEN /\ last.loaded.messages = <<>>
                       /\ store[last.user] = last.loaded
                  ELSE last.loaded = w.pre
        /\ last.prior.op = "msg_start" => last.loaded = last.prior.loaded

\* C9 witness: two loads in a row, the first of which created the record
C9_Witness ==
    /\ last.op = "msg_start"
    /\ last.prior.op = "msg_start"
    /\ \E w \in units : w.id # last.text /\ w.user_id = last.user /\ w.pre = NoFile
    /\ last.loaded.messages = <<>>

\* C10: while a record exists its display name does not change.
C10_NameFixed ==
    [][\A u \in Users :
          (store[u] # NoFile /\ store'[u] # NoFile) =>
              store'[u].username = store[u].username]_vars

\* C11: a corrupt record file is treated as not found: on_message of its
\* identity does not fail and leaves a decodable record in the file.
C11_CorruptIsNotFound ==
    /\ last.op # "msg_crashed"
    /\ last.op = "msg_start" => IsRecord(store[last.user])

\* C12: a handler step of identity A leaves the file, the units in flight and
\* the history bookkeeping of every identity B # A unchanged, also when A's
\* unit fails; so a unit undisturbed by its own identity persists what C7
\* states, whatever the other identities do meanwhile.
C12_Frame ==
    /\ [][\A u \in Users :
             last'.user # u =>
                 /\ store'[u] = store[u]
                 /\ {w \in units' : w.user_id = u} = InFlight(u)
                 /\ gone'[u] = gone[u]
                 /\ done'[u] = done[u]]_vars
    /\ [](last.op = "msg_done" /\ last.unit.clean =>
             /\ IsRecord(store[last.user])
             /\ store[last.user].messages =
                   Recent((IF IsRecord(last.unit.pre)
                           THEN last.unit.pre.messages ELSE <<>>)
                          \o PairsOf(<<last.text>>)))

\* C12 witness: the handler of one allowed identity failed at its load while
\* an undisturbed unit of the other allowed identity is in flight
C12_Witness ==
    /\ last.op = "msg_crashed"
    /\ \E w \in units :
          /\ w.user_id # last.user
          /\ w.user_id \in ALLOWED_USERS
          /\ w.clean

\* C13: with a configuration file missing the process never gets to polling:
\* no handler step is taken, no unit exists, every record file is as it was,
\* and once exited the exit code is not 0 and the error names a missing file.
C13_ConfigMissing ==
    configFiles # ConfigNames =>
        /\ proc.state \in {"import", "exited"}
        /\ last.op = "init"
        /\ units = {}
        /\ \A u \in Users :
              /\ store[u] \in InitFiles(u)
              /\ base[u] = (IF IsRecord(store[u]) THEN store[u].messages ELSE <<>>)
        /\ proc.state = "exited" =>
              /\ proc.exit_code # 0
              /\ proc.error \in ConfigNames \ configFiles

\* C13 witness: the allow-list was read, private.json is missing, exit code 1
C13_Witness ==
    /\ proc.state = "exited"
    /\ proc.exit_code = 1
    /\ proc.error = "private.json"
    /\ "allowed_users.json" \in configFiles

\* C14: at most one on_message unit of an identity is between its load and
\* its save.
C14_MutualExclusion == \A u \in Users : Cardinality(InFlight(u)) <= 1

\* new is old with entries removed from the front and new entries at the end
AppendOnly(old, new) ==
    \E k \in 0..Len(old) :
        LET kept == SubSeq(old, k + 1, Len(old))
        IN /\ Len(kept) <= Len(new)
           /\ SubSeq(new, 1, Len(kept)) = kept
           /\ \A i \in (Len(kept) + 1)..Len(new) : new[i] \notin Range(old)

C17_BotEntryAfterSend ==
    \A w \in units : \A u \in Users :
        IsRecord(store[u]) => Entry("bot", w.text) \notin Range(store[u].messages)

\* C17 witness: the reply was delivered and the bot entry is not yet persisted
C17_Witness ==
    /\ last.op = "msg_sent"
    /\ last.reply = "echo"
    /\ \E w \in units :
          /\ w.text = last.text
          /\ w.pc = "sent"
          /\ IsRecord(store[w.user_id])
          /\ Entry("bot", w.text) \notin Range(store[w.user_id].messages)

\* C18: every persisted history has even length and consists of adjacent
\* pairs {user,t},{bot,t}.
C18_Pairs ==
    \A u \in Users :
        IsRecord(store[u]) =>
            LET msgs == store[u].messages
            IN /\ Len(msgs) % 2 = 0
               /\ \A i \in 1..Len(msgs) :
                     i % 2 = 1 =>
                         /\ msgs[i].from = "user"
                         /\ msgs[i + 1].from = "bot"
                         /\ msgs[i + 1].text = msgs[i].text

\* C18 witness: a save evicted at the bound and the history is still pairs
C18_Witness ==
    /\ last.op = "msg_done"
    /\ Len(last.unit.memory.messages) = 20
    /\ last.unit.memory.messages[1].from = "bot"
    /\ Len(store[last.user].messages) = 20
    /\ store[last.user].messages[1].from = "user"

\* C19: after a failed send the user entry of the message is not persisted,
\* and when no other event of the identity came between, the file is what it
\* was before the unit, or a new record with empty history if there was none.
C19_SendFailure ==
    last.op = "msg_failed" =>
        /\ IsRecord(store[last.user]) =>
              Entry("user", last.text) \notin Range(store[last.user].messages)
        /\ last.unit.clean =>
              IF last.unit.pre = NoFile
              THEN /\ IsRecord(store[last.user])
                   /\ store[last.user].messages = <<>>
              ELSE store[last.user] = last.unit.pre

\* C19 witness: the send failed for an identity that had no record
C19_Witness ==
    /\ last.op = "msg_failed"
    /\ last.unit.clean
    /\ last.unit.pre = NoFile
    /\ store[last.user].messages = <<>>

UnitIds(us) == {w.id : w \in us}

\* C16: a unit of an allowed identity is created by its on_message step with
\* the history loaded, the user entry appended and the reply obtained, and is
\* then awaiting the send; it moves only from the send to the resumption and
\* leaves only by the save after the send or by a failed send; an event of an
\* identity that is not allowed creates no unit; and every unit in flight
\* eventually leaves, a unit whose send succeeded by its save.
C16_StateSequence ==
    /\ [][/\ \A w \in units' :
               w.id \notin UnitIds(units) =>
                   /\ last'.op = "msg_start" /\ last'.text = w.id
                   /\ w.id = nextText /\ nextText' = nextText + 1
                   /\ w.user_id \in ALLOWED_USERS
                   /\ w.pc = "sending"
                   /\ w.reply = w.text
                   /\ w.memory.messages[Len(w.memory.messages)] = Entry("user", w.text)
          /\ \A w \in units : \A x \in units' :
               (x.id = w.id /\ x.pc # w.pc) =>
                   /\ w.pc = "sending" /\ x.pc = "sent"
                   /\ last'.op = "msg_sent" /\ last'.text = w.id
          /\ \A w \in units :
               w.id \notin UnitIds(units') =>
                   /\ last'.text = w.id
                   /\ \/ w.pc = "sent" /\ last'.op = "msg_done"
                      \/ w.pc = "sending" /\ last'.op = "msg_failed"
          /\ last'.user \notin ALLOWED_USERS =>
               /\ last'.op \in {"msg_rejected", "clear_rejected"}
               /\ units' = units]_vars
    /\ \A id \in 1..MaxMsgs :
          /\ (id \in UnitIds(units)) ~> (id \notin UnitIds(units))
          /\ (\E w \in units : w.id = id /\ w.pc = "sent")
                ~> (last.op = "msg_done" /\ last.text = id)

\* C16 witness: a unit went through the send and its save, none is in flight
C16_Witness ==
    /\ last.op = "msg_done"
    /\ last.unit.pc = "sent"
    /\ last.prior.op = "msg_sent"
    /\ units = {}

====
